---- MODULE Spec2Model ----
(***************************************************************************)
(* Model of the Milvus indexer (Indexer.Store) and retriever               *)
(* (Retriever.Retrieve) components and of their helpers (chunk, iter,      *)
(* customEmbedding, convertDocuments, data2Document).                      *)
(*                                                                         *)
(* Conventions.  A Go pointer or interface value is a sequence of length   *)
(* at most one: <<>> is nil, <<v>> points at / holds v.  A Go error is a   *)
(* record [wrap, kind, got, expected]; NoErr is the nil error.  One call   *)
(* runs at a time; `trace` lists, in order, the callback hooks fired and   *)
(* the calls made to the external collaborators (embedding provider and    *)
(* store client) by the operation that is running or that ran last.        *)
(*                                                                         *)
(* The program holds one component at a time: constructing an Indexer      *)
(* releases the Retriever and the other way round.  The two share nothing  *)
(* but the collection, which stays.  A runtime panic (a nil embedder, a    *)
(* nil *TopK) ends the call with status "panic": the deferred function     *)
(* runs with the named result err still nil.  The vector dimension, the    *)
(* maximal ID length and the built-in model that NewIndexer records are    *)
(* read by no call modelled here and are left out.                         *)
(***************************************************************************)
EXTENDS Integers, Sequences, FiniteSets, TLC

\* ---------------------------------------------------------------- bounds
MaxShort == 3      \* every document sequence up to this length is an input
MaxLong == 7       \* one document sequence of each length up to this one
MaxBatch == 3      \* largest configured AddBatchSize
MaxTopK == 2       \* largest configured / per-call top-K
MaxChunkLen == 4   \* longest slice given to chunk on its own
MaxChunkSize == 5  \* largest size given to chunk on its own

\* ------------------------------------------------------ program constants
defaultAddBatchSize == 5
defaultTopK == 100
defaultPartition == "default"
defaultFieldID == "ID"
defaultFieldContent == "content"
defaultReturnFieldID == "ID"
defaultReturnFieldContent == "content"

\* ------------------------------------------------------------- utilities
Min(a, b) == IF a < b THEN a ELSE b

Range(s) == {s[i] : i \in 1..Len(s)}

SeqsUpTo(S, n) == UNION {[1..m -> S] : m \in 0..n}

RECURSIVE Flatten(_)
Flatten(ss) == IF ss = <<>> THEN <<>> ELSE Head(ss) \o Flatten(Tail(ss))

\* ----------------------------------------------------------------- chunk
\* A chunk that forgets the trailing remainder.
RECURSIVE chunkDropRemainder(_, _)
chunkDropRemainder(slice, size) ==
    IF size <= 0 \/ Len(slice) < size THEN <<>>
    ELSE <<SubSeq(slice, 1, size)>>
         \o chunkDropRemainder(SubSeq(slice, size + 1, Len(slice)), size)

\* The loop `for size < len(slice)` with its two loop variables.
RECURSIVE chunkLoop(_, _, _)
chunkLoop(slice, size, chunks) ==
    IF size < Len(slice)
    THEN chunkLoop(SubSeq(slice, size + 1, Len(slice)), size,
                   Append(chunks, SubSeq(slice, 1, size)))
    ELSE [slice |-> slice, chunks |-> chunks]

chunk(slice, size) ==
    IF size <= 0 THEN <<>>
    ELSE LET r == chunkLoop(slice, size, <<>>)
         IN  IF Len(r.slice) > 0 THEN Append(r.chunks, r.slice) ELSE r.chunks

\* iter(src, fn), for the functions it is called with: fn reads field `fn`
iter(src, fn) == [i \in 1..Len(src) |-> src[i][fn]]

\* ------------------------------------------------------------ data model
DocIDs == {"d1", "d2"}
Contents == {"x", "y"}
Doc == [ID : DocIDs, Content : Contents]

\* One document sequence of length n, for the lengths that are not enumerated.
LongDocs(n) ==
    [i \in 1..n |-> [ID |-> IF i % 2 = 1 THEN "d1" ELSE "d2",
                     Content |-> IF (i \div 2) % 2 = 0 THEN "x" ELSE "y"]]

DocInputs == SeqsUpTo(Doc, MaxShort) \cup {LongDocs(n) : n \in (MaxShort + 1)..MaxLong}

\* The vector the embedding provider computes for a text.
Vec(text) == [of |-> text, bits |-> 64]

\* float32(value) on every component of a vector
Float32(v) == [v EXCEPT !.bits = 32]

\* errors
NoErr == [wrap |-> "", kind |-> "nil", got |-> 0, expected |-> 0]
Err(kind) == [wrap |-> "", kind |-> kind, got |-> 0, expected |-> 0]
Wrap(prefix, e) == [e EXCEPT !.wrap = prefix]

\* hooks fired and external calls made
\* ev: the hook or the call; n: the rows, texts or top-K given; data: what was
\* given (hooks, Upsert, Search) or the number of vectors answered
\* (EmbedStrings); ok: the call returned no error.
Ev(ev, n, data, ok) == [ev |-> ev, n |-> n, data |-> data, ok |-> ok]

\* results of a call
Running == [status |-> "running", ids |-> <<>>, docs |-> <<>>, err |-> NoErr]
RetOk(idList, docList) == [status |-> "ok", ids |-> idList, docs |-> docList, err |-> NoErr]
RetErr(e) == [status |-> "error", ids |-> <<>>, docs |-> <<>>, err |-> e]
Panic == [status |-> "panic", ids |-> <<>>, docs |-> <<>>, err |-> NoErr]
NoRet == [status |-> "none", ids |-> <<>>, docs |-> <<>>, err |-> NoErr]

NoOptions == [Embedding |-> FALSE, TopK |-> <<>>, ScoreThreshold |-> <<>>,
              DSLInfo |-> <<>>, SubIndex |-> ""]

VARIABLES
    store,          \* rows of the collection: a set of [ID, Content, Vector]
    hasCollection,  \* the collection exists in the store
    indexer,        \* <<>> or <<the IndexerConfig of the Indexer>>
    retriever,      \* <<>> or <<the RetrieverConfig of the Retriever>>
    pc,             \* position of the running call, "idle" when none runs
    op,             \* the operation running or run last
    docs,           \* Store: the documents given
    options,        \* the options resolved by GetCommonOptions
    batches,        \* Store: the batches the loop has still to take
    ids,            \* Store: the ids accumulated
    dense,          \* Retrieve: the query vector, <<>> before the embedding
    result,         \* Retrieve: the result sets the search returned
    rpos,            \* Retrieve: the number of result sets the loop has taken
    rdocs,          \* Retrieve: the documents accumulated
    ret,            \* what the call returned
    trace,          \* hooks fired and external calls made by the call
    store0,         \* the rows of the collection when the call began
    given,          \* the configuration given to the constructor, in <<>>
    chSlice, chSize, chOut, chDone   \* chunk applied on its own

vars == <<store, hasCollection, indexer, retriever, pc, op, docs, options, batches,
          ids, dense, result, rpos, rdocs, ret, trace, store0, given,
          chSlice, chSize, chOut, chDone>>
chunkVars == <<chSlice, chSize, chOut, chDone>>
callVars == <<docs, options, batches, ids, dense, result, rpos, rdocs>>

\* --------------------------------------------------- external collaborators
\* What the embedding provider may answer to EmbedStrings(texts): an error, or
\* one vector per text with the last one missing or one too many.
ProviderVectors(texts, m) ==
    [i \in 1..m |-> IF i <= Len(texts) THEN Vec(texts[i]) ELSE Vec("")]

ProviderResults(texts) ==
    {[ok |-> FALSE, vectors |-> <<>>]}
    \cup {[ok |-> TRUE, vectors |-> ProviderVectors(texts, m)] :
             m \in {Len(texts) - 1, Len(texts), Len(texts) + 1} \ {-1}}

\* client.Upsert: insert-or-replace by primary key ID, row after row.
RECURSIVE UpsertFrom(_, _, _)
UpsertFrom(rows, columns, i) ==
    IF i > Len(columns.ID) THEN rows
    ELSE UpsertFrom({r \in rows : r.ID # columns.ID[i]}
                      \cup {[ID |-> columns.ID[i], Content |-> columns.Content[i],
                              Vector |-> columns.Vector[i]]},
                    columns, i + 1)

Upsert(rows, columns) == UpsertFrom(rows, columns, 1)

\* ---------------------------------------------------------------- indexer
\* the deferred function of Store and of Retrieve
Deferred(err, tr) ==
    IF err # NoErr THEN Append(tr, Ev("OnError", 0, <<err>>, TRUE)) ELSE tr

\* Indexer.customEmbedding: emb is options.Embedding (TRUE: an embedder, FALSE:
\* nil), prov the provider's answer.  A nil embedder panics on the call.
IndexerCustomEmbedding(emb, queries, prov) ==
    IF ~emb THEN [vectors |-> <<>>, err |-> NoErr, panic |-> TRUE]
    ELSE IF ~prov.ok
    THEN [vectors |-> <<>>, err |-> Err("EmbedStrings"), panic |-> FALSE]
    ELSE IF Len(prov.vectors) # Len(queries)
    THEN [vectors |-> <<>>,
          err |-> [wrap |-> "", kind |-> "EmbeddingCountMismatch",
                   got |-> 0, expected |-> Len(queries)],
          panic |-> FALSE]
    ELSE [vectors |-> [k \in 1..Len(prov.vectors) |-> Float32(prov.vectors[k])],
          err |-> NoErr, panic |-> FALSE]

NoColumns == [ID |-> <<>>, Content |-> <<>>, Vector |-> <<>>]

\* Columns whose contents all come from the first document.
convertDocumentsFirstContent(sub, emb, prov) ==
    LET e == IndexerCustomEmbedding(emb, [i \in 1..Len(sub) |-> sub[i].Content], prov)
    IN  IF e.panic \/ e.err # NoErr
        THEN [columns |-> NoColumns, err |-> e.err, panic |-> e.panic]
        ELSE [columns |-> [ID |-> [k \in 1..Len(sub) |-> sub[k].ID],
                           Content |-> [k \in 1..Len(sub) |-> sub[1].Content],
                           Vector |-> e.vectors],
              err |-> NoErr, panic |-> FALSE]

\* Indexer.convertDocuments
convertDocuments(sub, emb, prov) ==
    LET queries == iter(sub, "Content")
        e == IndexerCustomEmbedding(emb, queries, prov)
    IN  IF e.panic \/ e.err # NoErr
        THEN [columns |-> NoColumns, err |-> e.err, panic |-> e.panic]
        ELSE [columns |-> [ID |-> [k \in 1..Len(sub) |-> sub[k].ID],
                           Content |-> [k \in 1..Len(sub) |-> sub[k].Content],
                           Vector |-> e.vectors],
              err |-> NoErr, panic |-> FALSE]

\* A failing Store that hands back the ids of the batches already written.
StoreAbortPartial(acc, err) == [status |-> "error", ids |-> acc, docs |-> <<>>, err |-> err]

\* Store: return nil, err
StoreAbort(acc, err) == RetErr(err)

\* A constructor that only refuses two embedding sources.
EmbeddingInvalidConflictOnly(cfg) == cfg.UseBuiltin /\ cfg.Embedding

\* NewIndexer, NewRetriever: the check of the embedding configuration
EmbeddingInvalid(cfg) ==
    \/ cfg.UseBuiltin /\ cfg.Embedding
    \/ ~cfg.UseBuiltin /\ ~cfg.Embedding

\* A constructor that keeps a batch size of 0.
BatchSizeNoDefault(size) == size

\* NewIndexer: if config.AddBatchSize == 0 { config.AddBatchSize = defaultAddBatchSize }
BatchSize(size) == IF size = 0 THEN defaultAddBatchSize ELSE size

IndexerConfigs == [UseBuiltin : BOOLEAN, Embedding : BOOLEAN, AddBatchSize : -1..MaxBatch]

\* NewIndexer(ctx, config), with the answers of the store client: NewClient
\* succeeds or not, HasCollection fails or not, CreateCollection succeeds or not.
NewIndexer ==
    /\ pc = "idle"
    /\ \E config \in IndexerConfigs, clientOk \in BOOLEAN, hasOk \in BOOLEAN, createOk \in BOOLEAN :
         LET cfg == [config EXCEPT !.AddBatchSize = BatchSize(config.AddBatchSize)]
             tNew == <<Ev("NewClient", 0, <<>>, clientOk)>>
             tHas == Append(tNew, Ev("HasCollection", 0, <<>>, hasOk))
             tCreate == Append(tHas, Ev("CreateCollection", 0, <<>>, createOk))
         IN  /\ op' = "NewIndexer"
             /\ given' = <<config>>
             /\ IF EmbeddingInvalid(config)
                THEN /\ indexer' = <<>>
                     /\ ret' = RetErr(Err("EmbeddingConfig"))
                     /\ trace' = <<>>
                     /\ UNCHANGED hasCollection
                ELSE IF ~clientOk
                THEN /\ indexer' = <<>>
                     /\ ret' = RetErr(Err("NewClient"))
                     /\ trace' = tNew
                     /\ UNCHANGED hasCollection
                ELSE IF ~hasOk
                THEN /\ indexer' = <<>>
                     /\ ret' = RetErr(Err("HasCollection"))
                     /\ trace' = tHas
                     /\ UNCHANGED hasCollection
                ELSE IF hasCollection
                THEN /\ indexer' = <<cfg>>
                     /\ ret' = RetOk(<<>>, <<>>)
                     /\ trace' = tHas
                     /\ UNCHANGED hasCollection
                ELSE IF ~createOk
                THEN /\ indexer' = <<>>
                     /\ ret' = RetErr(Err("CreateCollection"))
                     /\ trace' = tCreate
                     /\ UNCHANGED hasCollection
                ELSE /\ indexer' = <<cfg>>
                     /\ ret' = RetOk(<<>>, <<>>)
                     /\ trace' = tCreate
                     /\ hasCollection' = TRUE
    /\ store0' = store
    /\ docs' = <<>> /\ options' = NoOptions /\ batches' = <<>> /\ ids' = <<>>
    /\ dense' = <<>> /\ result' = <<>> /\ rpos' = 0 /\ rdocs' = <<>>
    /\ retriever' = <<>>
    /\ pc' = "done"
    /\ UNCHANGED <<store, chunkVars>>

\* Store, up to the loop: the deferred function is registered, the options are
\* resolved (optEmb: the caller passes an embedder as an option), OnStart fires.
StoreBegin ==
    /\ pc = "idle"
    /\ indexer # <<>>
    /\ \E ds \in DocInputs, optEmb \in BOOLEAN :
         /\ docs' = ds
         /\ options' = [NoOptions EXCEPT !.Embedding = optEmb \/ indexer[1].Embedding]
         /\ trace' = <<Ev("OnStart", 0, ds, TRUE)>>
         /\ batches' = chunk(ds, indexer[1].AddBatchSize)
    /\ op' = "Store"
    /\ ids' = <<>>
    /\ ret' = Running
    /\ pc' = "store"
    /\ store0' = store
    /\ given' = <<>>
    /\ dense' = <<>> /\ result' = <<>> /\ rpos' = 0 /\ rdocs' = <<>>
    /\ UNCHANGED <<store, hasCollection, indexer, retriever, chunkVars>>

\* One iteration of the loop over the batches, with the answers of the embedding
\* provider and of the store client.
StoreBatch ==
    /\ pc = "store"
    /\ batches # <<>>
    /\ LET sub == Head(batches) IN
       \E prov \in ProviderResults(iter(sub, "Content")), upsertOk \in BOOLEAN :
         LET conv == convertDocuments(sub, options.Embedding, prov)
             tEmb == Append(trace, Ev("EmbedStrings", Len(sub), <<Len(prov.vectors)>>, prov.ok))
             tUps == Append(tEmb, Ev("Upsert", Len(conv.columns.ID), conv.columns.ID, upsertOk))
         IN  IF conv.panic
             THEN /\ ret' = Panic
                  /\ trace' = Deferred(NoErr, trace)
                  /\ pc' = "done"
                  /\ UNCHANGED <<store, batches, ids>>
             ELSE IF conv.err # NoErr
             THEN LET err == Wrap("convertDocuments failed", conv.err)
                  IN  /\ ret' = StoreAbort(ids, err)
                      /\ trace' = Deferred(err, tEmb)
                      /\ pc' = "done"
                      /\ UNCHANGED <<store, batches, ids>>
             ELSE IF ~upsertOk
             THEN LET err == Err("Upsert failed")
                  IN  /\ ret' = StoreAbort(ids, err)
                      /\ trace' = Deferred(err, tUps)
                      /\ pc' = "done"
                      /\ UNCHANGED <<store, batches, ids>>
             ELSE /\ store' = Upsert(store, conv.columns)
                  /\ ids' = ids \o iter(sub, "ID")
                  /\ batches' = Tail(batches)
                  /\ trace' = tUps
                  /\ UNCHANGED <<ret, pc>>
    /\ UNCHANGED <<hasCollection, indexer, retriever, op, docs, options, dense, result,
                   rpos, rdocs, store0, given, chunkVars>>

\* Store, after the loop: OnEnd fires and the ids are returned.
StoreEnd ==
    /\ pc = "store"
    /\ batches = <<>>
    /\ trace' = Deferred(NoErr, Append(trace, Ev("OnEnd", 0, ids, TRUE)))
    /\ ret' = RetOk(ids, <<>>)
    /\ pc' = "done"
    /\ UNCHANGED <<store, hasCollection, indexer, retriever, op, docs, options, batches,
                   ids, dense, result, rpos, rdocs, store0, given, chunkVars>>

\* -------------------------------------------------------------- retriever
Ptr(S) == {<<>>} \cup {<<v>> : v \in S}

dereferenceOrZero(v) == IF v = <<>> THEN 0 ELSE v[1]

\* json.Marshal of the filter map: nil gives null
tryMarshalJsonString(input) == IF input = <<>> THEN "null" ELSE input[1]

MaxScore == 2
Thresholds == Ptr({1})
ConfigDSL == {<<>>, <<"f">>}
OptionDSL == {<<>>, <<"g">>}

RetrieverConfigs ==
    [UseBuiltin : BOOLEAN, Embedding : BOOLEAN, TopK : Ptr(1..MaxTopK),
     ScoreThreshold : Thresholds, FilterDSL : ConfigDSL, Partition : {""}]

\* NewRetriever(ctx, config), with the answer of client.NewClient.
NewRetriever ==
    /\ pc = "idle"
    /\ \E config \in RetrieverConfigs, clientOk \in BOOLEAN :
         LET cfg == [config EXCEPT !.Partition =
                        IF Len(config.Partition) = 0 THEN defaultPartition
                        ELSE config.Partition]
         IN  /\ given' = <<config>>
             /\ IF EmbeddingInvalid(config)
                THEN /\ retriever' = <<>>
                     /\ ret' = RetErr(Err("EmbeddingConfig"))
                     /\ trace' = <<>>
                ELSE IF ~clientOk
                THEN /\ retriever' = <<>>
                     /\ ret' = RetErr(Err("NewClient"))
                     /\ trace' = <<Ev("NewClient", 0, <<>>, clientOk)>>
                ELSE /\ retriever' = <<cfg>>
                     /\ ret' = RetOk(<<>>, <<>>)
                     /\ trace' = <<Ev("NewClient", 0, <<>>, clientOk)>>
    /\ op' = "NewRetriever"
    /\ store0' = store
    /\ docs' = <<>> /\ options' = NoOptions /\ batches' = <<>> /\ ids' = <<>>
    /\ dense' = <<>> /\ result' = <<>> /\ rpos' = 0 /\ rdocs' = <<>>
    /\ indexer' = <<>>
    /\ pc' = "done"
    /\ UNCHANGED <<store, hasCollection, chunkVars>>

\* retriever.GetCommonOptions: the options of the call laid over the configured
\* ones; <<>> is an option the caller did not pass.
RetrieverOptions(cfg, optTopK, optThreshold, optDSL, optEmb) ==
    [Embedding |-> optEmb \/ cfg.Embedding,
     TopK |-> IF optTopK # <<>> THEN optTopK ELSE cfg.TopK,
     ScoreThreshold |-> IF optThreshold # <<>> THEN optThreshold ELSE cfg.ScoreThreshold,
     DSLInfo |-> IF optDSL # <<>> THEN optDSL ELSE cfg.FilterDSL,
     SubIndex |-> cfg.Partition]

\* Retrieve, up to the embedding: the deferred function is registered, the
\* options are resolved, OnStart fires.
RetrieveBegin ==
    /\ pc = "idle"
    /\ retriever # <<>>
    /\ \E optTopK \in Ptr(1..MaxTopK), optThreshold \in Thresholds,
          optDSL \in OptionDSL, optEmb \in BOOLEAN :
         LET o == RetrieverOptions(retriever[1], optTopK, optThreshold, optDSL, optEmb)
         IN  /\ options' = o
             /\ trace' = <<Ev("OnStart", dereferenceOrZero(o.TopK),
                               <<tryMarshalJsonString(o.DSLInfo), o.ScoreThreshold>>, TRUE)>>
    /\ op' = "Retrieve"
    /\ ret' = Running
    /\ pc' = "embed"
    /\ store0' = store
    /\ given' = <<>>
    /\ docs' = <<>> /\ batches' = <<>> /\ ids' = <<>>
    /\ dense' = <<>> /\ result' = <<>> /\ rpos' = 0 /\ rdocs' = <<>>
    /\ UNCHANGED <<store, hasCollection, indexer, retriever, chunkVars>>

\* An adapter that only refuses an empty answer and takes the first vector.
RetrieverCustomEmbeddingFirstOnly(emb, query, prov) ==
    IF ~emb THEN [vector |-> <<>>, err |-> NoErr, panic |-> TRUE]
    ELSE IF ~prov.ok
    THEN [vector |-> <<>>, err |-> Err("EmbedStrings"), panic |-> FALSE]
    ELSE IF Len(prov.vectors) = 0
    THEN [vector |-> <<>>,
          err |-> [wrap |-> "", kind |-> "EmbeddingCountMismatch",
                   got |-> Len(prov.vectors), expected |-> 1],
          panic |-> FALSE]
    ELSE [vector |-> <<Float32(prov.vectors[1])>>, err |-> NoErr, panic |-> FALSE]

\* Retriever.customEmbedding
RetrieverCustomEmbedding(emb, query, prov) ==
    IF ~emb THEN [vector |-> <<>>, err |-> NoErr, panic |-> TRUE]
    ELSE IF ~prov.ok
    THEN [vector |-> <<>>, err |-> Err("EmbedStrings"), panic |-> FALSE]
    ELSE IF Len(prov.vectors) # 1
    THEN [vector |-> <<>>,
          err |-> [wrap |-> "", kind |-> "EmbeddingCountMismatch",
                   got |-> Len(prov.vectors), expected |-> 1],
          panic |-> FALSE]
    ELSE [vector |-> <<Float32(prov.vectors[1])>>, err |-> NoErr, panic |-> FALSE]

Query == "q"

\* Retrieve: dense, err = r.customEmbedding(ctx, query, options)
RetrieveEmbed ==
    /\ pc = "embed"
    /\ \E prov \in ProviderResults(<<Query>>) :
         LET e == RetrieverCustomEmbedding(options.Embedding, Query, prov)
             tEmb == Append(trace, Ev("EmbedStrings", 1, <<Len(prov.vectors)>>, prov.ok))
         IN  IF e.panic
             THEN /\ ret' = Panic
                  /\ trace' = Deferred(NoErr, trace)
                  /\ pc' = "done"
                  /\ UNCHANGED dense
             ELSE IF e.err # NoErr
             THEN /\ ret' = RetErr(e.err)
                  /\ trace' = Deferred(e.err, tEmb)
                  /\ pc' = "done"
                  /\ UNCHANGED dense
             ELSE /\ dense' = e.vector
                  /\ trace' = tEmb
                  /\ pc' = "search"
                  /\ UNCHANGED ret
    /\ UNCHANGED <<store, hasCollection, indexer, retriever, op, docs, options, batches,
                   ids, result, rpos, rdocs, store0, given, chunkVars>>

\* client.Search: one result set for the one query vector.  The result set
\* ranks rows of the collection, best first, cut at topK; its columns are the
\* output fields asked for.  `shape` is how the columns may differ from the
\* two string columns the decoder expects.
Shapes == {"ok", "noID", "noContent", "idNotVarChar", "contentNotVarChar"}

Rankings(rows, n) ==
    {s \in [1..n -> rows] : \A i, j \in 1..n : i # j => s[i] # s[j]}

ScoreLists(n) ==
    {s \in [1..n -> 0..MaxScore] : \A i, j \in 1..n : i < j => s[i] <= s[j]}

RowField(row, name) ==
    IF name = defaultFieldID THEN row.ID
    ELSE IF name = defaultFieldContent THEN row.Content
    ELSE ""

Column(name, typ, ranking) ==
    [name |-> name, typ |-> typ,
     values |-> [i \in 1..Len(ranking) |-> RowField(ranking[i], name)]]

SearchResult(ranking, scores, shape, outputFields) ==
    [ResultCount |-> Len(ranking),
     Fields |->
        (IF shape = "noID" THEN <<>>
         ELSE <<Column(outputFields[1],
                       IF shape = "idNotVarChar" THEN "Int64" ELSE "VarChar", ranking)>>)
        \o
        (IF shape = "noContent" THEN <<>>
         ELSE <<Column(outputFields[2],
                       IF shape = "contentNotVarChar" THEN "Int64" ELSE "VarChar", ranking)>>),
     Scores |-> scores]

SearchResults(rows, topK, outputFields) ==
    LET n == Min(topK, Cardinality(rows))
    IN  {SearchResult(ranking, scores, shape, outputFields) :
            ranking \in Rankings(rows, n), scores \in ScoreLists(n), shape \in Shapes}

\* Retrieve: the search.  *r.config.TopK panics on a nil pointer before the
\* search is called.
RetrieveSearch ==
    /\ pc = "search"
    /\ IF retriever[1].TopK = <<>>
       THEN /\ ret' = Panic
            /\ trace' = Deferred(NoErr, trace)
            /\ pc' = "done"
            /\ UNCHANGED result
       ELSE LET topK == retriever[1].TopK[1]
                outputFields == <<defaultReturnFieldID, defaultReturnFieldContent>>
                tSearch(ok) == Append(trace, Ev("Search", topK, outputFields, ok))
            IN  \E searchOk \in BOOLEAN, res \in SearchResults(store, topK, outputFields) :
                  IF ~searchOk \/ ~hasCollection
                  THEN /\ ret' = RetErr(Err("Search"))
                       /\ trace' = Deferred(Err("Search"), tSearch(FALSE))
                       /\ pc' = "done"
                       /\ UNCHANGED result
                  ELSE /\ result' = <<res>>
                       /\ trace' = tSearch(TRUE)
                       /\ pc' = "decode"
                       /\ UNCHANGED ret
    /\ UNCHANGED <<store, hasCollection, indexer, retriever, op, docs, options, batches,
                   ids, dense, rpos, rdocs, store0, given, chunkVars>>

NoDoc == [ID |-> "", Content |-> "", MetaData |-> [score |-> <<>>, dsl |-> <<>>]]

\* the loop of data2Document over data.Fields: the columns found, <<>> for nil
RECURSIVE ScanFields(_, _, _, _)
ScanFields(fields, i, idColumn, contentColumn) ==
    IF i > Len(fields) THEN [idColumn |-> idColumn, contentColumn |-> contentColumn]
    ELSE IF fields[i].name = defaultReturnFieldID
    THEN ScanFields(fields, i + 1,
                    IF fields[i].typ = "VarChar" THEN <<fields[i]>> ELSE idColumn,
                    contentColumn)
    ELSE IF fields[i].name = defaultReturnFieldContent
    THEN ScanFields(fields, i + 1, idColumn,
                    IF fields[i].typ = "VarChar" THEN <<fields[i]>> ELSE contentColumn)
    ELSE ScanFields(fields, i + 1, idColumn, contentColumn)

\* A decoder that builds the document from the last row.
data2DocumentLastRow(data) ==
    LET c == ScanFields(data.Fields, 1, <<>>, <<>>)
    IN  IF c.idColumn = <<>> \/ c.contentColumn = <<>> \/ data.ResultCount = 0
        THEN [doc |-> NoDoc, err |-> Err("result field not math"), panic |-> FALSE]
        ELSE [doc |-> [ID |-> c.idColumn[1].values[data.ResultCount],
                       Content |-> c.contentColumn[1].values[data.ResultCount],
                       MetaData |-> [score |-> <<data.Scores[data.ResultCount]>>,
                                     dsl |-> <<>>]],
              err |-> NoErr, panic |-> FALSE]

\* A decoder that does not look for the content column.
data2DocumentNoContentCheck(data) ==
    LET c == ScanFields(data.Fields, 1, <<>>, <<>>)
    IN  IF c.idColumn = <<>> \/ data.ResultCount = 0
        THEN [doc |-> NoDoc, err |-> Err("result field not math"), panic |-> FALSE]
        ELSE [doc |-> [ID |-> c.idColumn[1].values[1],
                       Content |-> IF c.contentColumn = <<>> THEN ""
                                   ELSE c.contentColumn[1].values[1],
                       MetaData |-> [score |-> <<data.Scores[1]>>, dsl |-> <<>>]],
              err |-> NoErr, panic |-> FALSE]

\* Retriever.data2Document
data2Document(data) ==
    LET c == ScanFields(data.Fields, 1, <<>>, <<>>)
    IN  IF c.idColumn = <<>> \/ c.contentColumn = <<>> \/ data.ResultCount = 0
        THEN [doc |-> NoDoc, err |-> Err("result field not math"), panic |-> FALSE]
        ELSE IF Len(c.idColumn[1].values) = 0 \/ Len(c.contentColumn[1].values) = 0
        THEN [doc |-> NoDoc, err |-> Err("ValueByIdx"), panic |-> FALSE]
        ELSE IF Len(data.Scores) = 0
        THEN [doc |-> NoDoc, err |-> NoErr, panic |-> TRUE]
        ELSE [doc |-> [ID |-> c.idColumn[1].values[1],
                       Content |-> c.contentColumn[1].values[1],
                       MetaData |-> [score |-> <<data.Scores[1]>>, dsl |-> <<>>]],
              err |-> NoErr, panic |-> FALSE]

\* Document.WithDSLInfo
WithDSLInfo(doc, dslInfo) == [doc EXCEPT !.MetaData.dsl = <<dslInfo>>]

\* Retrieve: one iteration of the loop over the result sets.
RetrieveDecode ==
    /\ pc = "decode"
    /\ rpos < Len(result)
    /\ LET d == data2Document(result[rpos + 1])
       IN  IF d.panic
           THEN /\ ret' = Panic
                /\ trace' = Deferred(NoErr, trace)
                /\ pc' = "done"
                /\ UNCHANGED <<rdocs, rpos>>
           ELSE IF d.err # NoErr
           THEN /\ ret' = RetErr(d.err)
                /\ trace' = Deferred(d.err, trace)
                /\ pc' = "done"
                /\ UNCHANGED <<rdocs, rpos>>
           ELSE /\ rdocs' = Append(rdocs, WithDSLInfo(d.doc, options.DSLInfo))
                /\ rpos' = rpos + 1
                /\ UNCHANGED <<ret, trace, pc>>
    /\ UNCHANGED <<store, hasCollection, indexer, retriever, op, docs, options, batches,
                   ids, dense, result, store0, given, chunkVars>>

\* Retrieve, after the loop: OnEnd fires and the documents are returned.
RetrieveEnd ==
    /\ pc = "decode"
    /\ rpos = Len(result)
    /\ trace' = Deferred(NoErr, Append(trace, Ev("OnEnd", 0, rdocs, TRUE)))
    /\ ret' = RetOk(<<>>, rdocs)
    /\ pc' = "done"
    /\ UNCHANGED <<store, hasCollection, indexer, retriever, op, docs, options, batches,
                   ids, dense, result, rpos, rdocs, store0, given, chunkVars>>

\* The caller takes what the call returned; nothing of the call is left.
Return ==
    /\ pc = "done"
    /\ pc' = "idle"
    /\ op' = "none"
    /\ docs' = <<>> /\ options' = NoOptions /\ batches' = <<>> /\ ids' = <<>>
    /\ dense' = <<>> /\ result' = <<>> /\ rpos' = 0 /\ rdocs' = <<>>
    /\ ret' = NoRet
    /\ trace' = <<>>
    /\ store0' = {}
    /\ given' = <<>>
    /\ UNCHANGED <<store, hasCollection, indexer, retriever, chunkVars>>

\* ------------------------------------------------------- specifications
Init ==
    /\ store = {}
    /\ hasCollection = FALSE
    /\ indexer = <<>>
    /\ retriever = <<>>
    /\ pc = "idle"
    /\ op = "none"
    /\ docs = <<>> /\ options = NoOptions /\ batches = <<>> /\ ids = <<>>
    /\ dense = <<>> /\ result = <<>> /\ rpos = 0 /\ rdocs = <<>>
    /\ ret = NoRet
    /\ trace = <<>>
    /\ store0 = {}
    /\ given = <<>>
    /\ chSlice = <<>> /\ chSize = 0 /\ chOut = <<>> /\ chDone = TRUE

Next ==
    \/ NewIndexer
    \/ StoreBegin
    \/ StoreBatch
    \/ StoreEnd
    \/ NewRetriever
    \/ RetrieveBegin
    \/ RetrieveEmbed
    \/ RetrieveSearch
    \/ RetrieveDecode
    \/ RetrieveEnd
    \/ Return

Spec == Init /\ [][Next]_vars

\* chunk on its own: every slice and size within the bounds, then the call
ChunkElems == {"a", "b"}

InitChunk ==
    /\ store = {}
    /\ hasCollection = FALSE
    /\ indexer = <<>>
    /\ retriever = <<>>
    /\ pc = "idle"
    /\ op = "none"
    /\ docs = <<>> /\ options = NoOptions /\ batches = <<>> /\ ids = <<>>
    /\ dense = <<>> /\ result = <<>> /\ rpos = 0 /\ rdocs = <<>>
    /\ ret = NoRet
    /\ trace = <<>>
    /\ store0 = {}
    /\ given = <<>>
    /\ chSlice \in SeqsUpTo(ChunkElems, MaxChunkLen)
    /\ chSize \in -1..MaxChunkSize
    /\ chOut = <<>>
    /\ chDone = FALSE

ChunkApply ==
    /\ ~chDone
    /\ chOut' = chunk(chSlice, chSize)
    /\ chDone' = TRUE
    /\ UNCHANGED <<store, hasCollection, indexer, retriever, pc, op, callVars, ret,
                   trace, store0, given, chSlice, chSize>>

NextChunk == ChunkApply

SpecChunk == InitChunk /\ [][NextChunk]_vars

\* ------------------------------------------------------------------ claims
CeilDiv(n, k) == (n + k - 1) \div k

Calls(ev) == SelectSeq(trace, LAMBDA e : e.ev = ev)

IDsOf(ds) == [i \in 1..Len(ds) |-> ds[i].ID]

\* every embedding call of the call answered one vector per text without an
\* error, and every upsert succeeded
AllCallsSucceeded ==
    \A i \in 1..Len(trace) :
        /\ trace[i].ev = "EmbedStrings" => trace[i].ok /\ trace[i].data = <<trace[i].n>>
        /\ trace[i].ev = "Upsert" => trace[i].ok

\* C1: a batch size of 0 given to NewIndexer becomes 5; a Store of n documents
\* with batch size k > 0 whose embedding calls and upserts all succeed (and
\* that has an embedder to call) makes ceil(n/k) upserts, one per batch in
\* order, of k, ..., k rows and a remainder in 1..k, and returns without an
\* error the ids of all n documents in their order.
C1_StoreBatches ==
    /\ (op = "NewIndexer" /\ pc = "done" /\ ret.status = "ok")
          => indexer[1].AddBatchSize =
               IF given[1].AddBatchSize = 0 THEN 5 ELSE given[1].AddBatchSize
    /\ (op = "Store" /\ pc = "done" /\ ret.status # "panic" /\ AllCallsSucceeded
           /\ indexer[1].AddBatchSize > 0)
          => LET k == indexer[1].AddBatchSize
                 n == Len(docs)
                 ups == Calls("Upsert")
             IN  /\ ret.status = "ok"
                 /\ ret.err = NoErr
                 /\ ret.ids = IDsOf(docs)
                 /\ Len(ups) = CeilDiv(n, k)
                 /\ \A j \in 1..Len(ups) :
                       /\ ups[j].n = IF j < Len(ups) THEN k ELSE n - (Len(ups) - 1) * k
                       /\ ups[j].n \in 1..k
                       /\ ups[j].data = [i \in 1..ups[j].n |-> docs[(j - 1) * k + i].ID]

\* a Store with the default batch size, a full batch and a remainder
C1_Witness ==
    /\ op = "Store" /\ pc = "done" /\ ret.status = "ok"
    /\ indexer[1].AddBatchSize = defaultAddBatchSize
    /\ Len(docs) > defaultAddBatchSize
    /\ Len(Calls("Upsert")) = 2

\* the rows a collection holding rows0 has once the documents ds are written,
\* the last write of an ID winning
IDSet(ds) == {ds[i].ID : i \in 1..Len(ds)}

LastContent(ds, id) ==
    LET last == CHOOSE i \in 1..Len(ds) :
                    ds[i].ID = id /\ \A j \in (i + 1)..Len(ds) : ds[j].ID # id
    IN  ds[last].Content

RowsAfter(rows0, ds) ==
    {r \in rows0 : r.ID \notin IDSet(ds)}
    \cup {[ID |-> id, Content |-> LastContent(ds, id),
            Vector |-> [of |-> LastContent(ds, id), bits |-> 32]] : id \in IDSet(ds)}

\* the embedding call or the upsert recorded at trace[i] failed
FailedAt(i) ==
    \/ trace[i].ev = "EmbedStrings" /\ (~trace[i].ok \/ trace[i].data # <<trace[i].n>>)
    \/ trace[i].ev = "Upsert" /\ ~trace[i].ok

\* C2: when the embedding call or the upsert of batch j fails in Store, no
\* call is made after it (only the error hook follows), Store returns an
\* error and no ids, and the collection holds what batches 1..j-1 wrote on
\* top of what it held.
C2_StoreAborts ==
    op = "Store" =>
        \A i \in 1..Len(trace) :
            FailedAt(i) =>
                LET written == Len(SelectSeq(trace, LAMBDA e : e.ev = "Upsert" /\ e.ok))
                    k == indexer[1].AddBatchSize
                IN  /\ pc = "done"
                    /\ ret.status = "error"
                    /\ ret.err # NoErr
                    /\ ret.ids = <<>>
                    /\ i = Len(trace) - 1
                    /\ trace[Len(trace)].ev = "OnError"
                    /\ Len(Calls("EmbedStrings")) = written + 1
                    /\ store = RowsAfter(store0, SubSeq(docs, 1, written * k))

\* the upsert of a later batch failed after earlier batches changed the rows
C2_Witness ==
    /\ op = "Store" /\ pc = "done" /\ ret.status = "error"
    /\ ret.err.kind = "Upsert failed"
    /\ Len(Calls("Upsert")) >= 2
    /\ store # store0

\* C3: when the embedding provider answers a number of vectors other than the
\* number of texts given, the call fails with a count-mismatch error and makes
\* no upsert and no search after that answer.
C3_CountMismatch ==
    \A i \in 1..Len(trace) :
        (trace[i].ev = "EmbedStrings" /\ trace[i].ok /\ trace[i].data # <<trace[i].n>>)
            => /\ pc = "done"
               /\ ret.status = "error"
               /\ ret.err.kind = "EmbeddingCountMismatch"
               /\ ret.err.expected = trace[i].n
               /\ ret.ids = <<>> /\ ret.docs = <<>>
               /\ \A j \in (i + 1)..Len(trace) : trace[j].ev = "OnError"
               /\ op = "Store" => trace[i].n = Len(docs) - Len(ids)
                                     \/ trace[i].n = indexer[1].AddBatchSize
               /\ op = "Retrieve" => trace[i].n = 1

\* the provider answered one vector too few for the second batch of a Store
C3_Witness ==
    /\ op = "Store" /\ pc = "done"
    /\ ret.err.kind = "EmbeddingCountMismatch"
    /\ Len(Calls("Upsert")) = 1
    /\ trace[Len(trace) - 1].data = <<trace[Len(trace) - 1].n - 1>>

\* C4: NewIndexer and NewRetriever succeed only with exactly one embedding
\* source; with both or neither they return an error and no object, and no
\* call to the store client has been made.
C4_ExactlyOneEmbedding ==
    (pc = "done" /\ op \in {"NewIndexer", "NewRetriever"}) =>
        LET cfg == given[1]
            exactlyOne == cfg.UseBuiltin # cfg.Embedding
            object == IF op = "NewIndexer" THEN indexer ELSE retriever
        IN  /\ ret.status = "ok" => exactlyOne /\ object # <<>>
            /\ ~exactlyOne => /\ ret.status = "error"
                               /\ ret.err # NoErr
                               /\ object = <<>>
                               /\ trace = <<>>

\* a retriever asked for with neither embedding source
C4_Witness ==
    /\ pc = "done" /\ op = "NewRetriever"
    /\ ~given[1].UseBuiltin /\ ~given[1].Embedding
    /\ ret.status = "error"

\* C5: the search of a Retrieve is made with the resolved top-K: the option of
\* the call, else the configured top-K, else 100; once the query is embedded
\* the search is made, also when the configuration has no top-K.
C5_SearchUsesResolvedTopK ==
    op = "Retrieve" =>
        LET resolved == IF options.TopK = <<>> THEN defaultTopK ELSE options.TopK[1]
        IN  /\ \A i \in 1..Len(trace) : trace[i].ev = "Search" => trace[i].n = resolved
            /\ (dense # <<>> /\ pc # "search")
                  => \E i \in 1..Len(trace) : trace[i].ev = "Search"

\* the column of a result set with the given name that is a string column
StringColumns(data, name) ==
    {f \in Range(data.Fields) : f.name = name /\ f.typ = "VarChar"}

BadResult(data) ==
    \/ data.ResultCount = 0
    \/ StringColumns(data, "ID") = {}
    \/ StringColumns(data, "content") = {}

\* C6: a result set without a string ID column, without a string content
\* column or without rows decodes to an error and no document; a Retrieve
\* that meets one returns that error and no documents.
C6_DecodeFails ==
    op = "Retrieve" =>
        \A i \in 1..Len(result) :
            BadResult(result[i]) =>
                /\ data2Document(result[i]).err # NoErr
                /\ data2Document(result[i]).doc = NoDoc
                /\ rpos < i
                /\ Len(rdocs) < i
                /\ pc = "done" => /\ ret.status = "error"
                                   /\ ret.err = data2Document(result[i]).err
                                   /\ ret.docs = <<>>
                                   /\ trace[Len(trace)].ev = "OnError"

\* a Retrieve failed on a result set that has rows but lacks a column
C6_Witness ==
    /\ op = "Retrieve" /\ pc = "done" /\ ret.status = "error"
    /\ Len(result) = 1
    /\ result[1].ResultCount > 0
    /\ StringColumns(result[1], "ID") # {}
    /\ StringColumns(result[1], "content") = {}

\* C8: the collection never holds two rows with one ID, and after a
\* successful Store (batch size > 0) it holds, for every ID given, one row
\* with the content of the last document given with that ID, and the rows it
\* held for the other IDs.
C8_IdempotentUpsert ==
    /\ \A r1, r2 \in store : r1.ID = r2.ID => r1 = r2
    /\ (op = "Store" /\ pc = "done" /\ ret.status = "ok")
          => IF indexer[1].AddBatchSize > 0
             THEN /\ store = RowsAfter(store0, docs)
                  /\ \A id \in IDSet(docs) :
                        {r.Content : r \in {q \in store : q.ID = id}} = {LastContent(docs, id)}
             ELSE store = store0

\* a Store replaced the content of a row the collection already held
C8_Witness ==
    /\ op = "Store" /\ pc = "done" /\ ret.status = "ok"
    /\ \E r0 \in store0, r \in store : r0.ID = r.ID /\ r0.Content # r.Content
    /\ \E i, j \in 1..Len(docs) : i < j /\ docs[i].ID = docs[j].ID
                                    /\ docs[i].Content # docs[j].Content

\* C9: in every Store and Retrieve the start hook fires once and first; when
\* the call is over, exactly one of the end hook (success, with what is
\* returned) and the error hook (failure) has fired, once.
C9_HookLifecycle ==
    op \in {"Store", "Retrieve"} =>
        /\ trace # <<>>
        /\ trace[1].ev = "OnStart"
        /\ Len(Calls("OnStart")) = 1
        /\ pc = "done" =>
              /\ Len(Calls("OnEnd")) + Len(Calls("OnError")) = 1
              /\ ret.status = "error" => Len(Calls("OnError")) = 1
              /\ ret.status = "ok" =>
                    /\ Len(Calls("OnEnd")) = 1
                    /\ trace[Len(trace)].data = IF op = "Store" THEN ret.ids ELSE ret.docs

\* C10: a successful Retrieve returns one document per result set, so at most
\* one; it is built from row 0 of the set: the ID and content of that row,
\* which are those of a row of the collection, the score of row 0, and the
\* resolved filter as metadata.
C10_TopRowOnly ==
    (op = "Retrieve" /\ pc = "done" /\ ret.status = "ok") =>
        /\ Len(ret.docs) = Len(result)
        /\ Len(ret.docs) <= 1
        /\ \A i \in 1..Len(ret.docs) :
              LET d == ret.docs[i]
                  data == result[i]
                  idColumn == CHOOSE f \in StringColumns(data, "ID") : TRUE
                  contentColumn == CHOOSE f \in StringColumns(data, "content") : TRUE
              IN  /\ d.ID = idColumn.values[1]
                  /\ d.Content = contentColumn.values[1]
                  /\ d.MetaData.score = <<data.Scores[1]>>
                  /\ d.MetaData.dsl = <<options.DSLInfo>>
                  /\ \E r \in store : r.ID = d.ID /\ r.Content = d.Content

\* a search with top-K 2 found two rows and Retrieve returned one document
C10_Witness ==
    /\ op = "Retrieve" /\ pc = "done" /\ ret.status = "ok"
    /\ \E i \in 1..Len(trace) : trace[i].ev = "Search" /\ trace[i].n = 2
    /\ result[1].ResultCount = 2
    /\ Len(ret.docs) = 1

\* a score passes a threshold when it is not below it
PassesThreshold(score, threshold) == score >= threshold

\* C11: with a score threshold resolved, no document a Retrieve returns has a
\* score that does not pass it; with none, every result set gives its
\* document whatever its score.
C11_ThresholdFilters ==
    (op = "Retrieve" /\ pc = "done" /\ ret.status = "ok") =>
        IF options.ScoreThreshold = <<>>
        THEN Len(ret.docs) = Len(result)
        ELSE \A i \in 1..Len(ret.docs) :
                PassesThreshold(ret.docs[i].MetaData.score[1], options.ScoreThreshold[1])

\* C7: chunk(S, k) is the partition of S into consecutive runs of k: nothing
\* for k <= 0 or an empty S; otherwise non-empty batches that concatenate to
\* S, all of length k but the last, which has length k when k divides len(S)
\* and len(S) mod k otherwise.
C7_ChunkPartition ==
    chDone =>
        LET n == Len(chSlice)
            last == Len(chOut)
        IN  IF chSize <= 0 THEN chOut = <<>>
            ELSE /\ Flatten(chOut) = chSlice
                 /\ \A j \in 1..last : Len(chOut[j]) > 0
                 /\ \A j \in 1..(last - 1) : Len(chOut[j]) = chSize
                 /\ n = 0 => chOut = <<>>
                 /\ n > 0 => Len(chOut[last]) =
                                IF n % chSize = 0 THEN chSize ELSE n % chSize

\* chunk has cut a slice into full batches and a shorter last one
C7_Witness ==
    /\ chDone
    /\ chSize > 1
    /\ Len(chOut) >= 2
    /\ Len(chSlice) % chSize # 0

====
